---------------------------- MODULE Spec2Model ----------------------------
(***************************************************************************)
(* A model of crwal..py: the arXiv image crawler.  process_arxiv_files     *)
(* lists the keys of the bucket, parses a date out of each key, and hands  *)
(* the keys inside the date window to download_and_extract_images, which   *)
(* downloads the archive and walks it (extract_from_tar,                   *)
(* extract_images_from_gz, extract_images_from_archive), writing image     *)
(* members to the output directory and removing the temp files.            *)
(*                                                                         *)
(* Strings are sequences of one-character strings, so that strip,          *)
(* endswith, basename, splitext and strptime are computed on the           *)
(* characters.  The call stack is a sequence of frames; an exception       *)
(* unwinds it to the innermost frame whose call site is inside a try.      *)
(***************************************************************************)
EXTENDS Integers, Sequences, FiniteSets, TLC

(***************************************************************************)
(* Bounds of the model.                                                    *)
(***************************************************************************)
MaxPages == 1
MaxPerPage == 2
MaxMembers == 2
MaxDepth == 2

(***************************************************************************)
(* Characters and string helpers.                                          *)
(***************************************************************************)
Upper == <<"A","B","C","D","E","F","G","H","I","J","K","L","M",
           "N","O","P","Q","R","S","T","U","V","W","X","Y","Z">>
LowerCase == <<"a","b","c","d","e","f","g","h","i","j","k","l","m",
               "n","o","p","q","r","s","t","u","v","w","x","y","z">>
Digits == <<"0","1","2","3","4","5","6","7","8","9">>

\* str.lower() on one character
LowerChar(c) ==
    IF \E i \in 1..26 : Upper[i] = c
    THEN LowerCase[CHOOSE i \in 1..26 : Upper[i] = c]
    ELSE c

\* str.lower()
Lower(s) == [i \in 1..Len(s) |-> LowerChar(s[i])]

IsDigit(c) == \E i \in 1..10 : Digits[i] = c

DigitVal(c) == (CHOOSE i \in 1..10 : Digits[i] = c) - 1

\* str.endswith(suffix)
EndsWith(s, suffix) ==
    /\ Len(s) >= Len(suffix)
    /\ SubSeq(s, Len(s) - Len(suffix) + 1, Len(s)) = suffix

\* s[k:] of Python, k counted from 0
Drop(s, k) == SubSeq(s, k + 1, Len(s))

\* s[:k] of Python
Take(s, k) == SubSeq(s, 1, k)

\* str.rfind(c) as a 1-based index, 0 when absent
RFind(s, c) ==
    IF \E i \in 1..Len(s) : s[i] = c
    THEN CHOOSE i \in 1..Len(s) : s[i] = c /\ \A j \in (i+1)..Len(s) : s[j] # c
    ELSE 0

\* str.strip(chars): drops the characters of `chars` from both ends
StripLeft(s, chars) ==
    IF \A i \in 1..Len(s) : s[i] \in chars
    THEN << >>
    ELSE Drop(s, (CHOOSE i \in 1..Len(s) :
                     s[i] \notin chars /\ \A j \in 1..(i-1) : s[j] \in chars) - 1)

StripRight(s, chars) ==
    IF \A i \in 1..Len(s) : s[i] \in chars
    THEN << >>
    ELSE Take(s, CHOOSE i \in 1..Len(s) :
                     s[i] \notin chars /\ \A j \in (i+1)..Len(s) : s[j] \in chars)

\* A character-class strip that also eats 'g' and 'z': not what the code does.
StripWholeSuffix(s, chars) == StripRight(StripLeft(s, chars \cup {"g", "z"}),
                                         chars \cup {"g", "z"})

Strip(s, chars) == StripRight(StripLeft(s, chars), chars)

\* os.path.basename
basename(p) == Drop(p, RFind(p, "/"))

\* os.path.splitext on a name: <<root, ext>>; leading dots do not start
\* an extension
splitext(p) ==
    LET sepIndex == RFind(p, "/")
        dotIndex == RFind(p, ".")
    IN  IF /\ dotIndex > sepIndex
           /\ \E i \in (sepIndex + 1)..(dotIndex - 1) : p[i] # "."
        THEN <<Take(p, dotIndex - 1), Drop(p, dotIndex - 1)>>
        ELSE <<p, << >> >>

\* os.path.join(a, b) for two components
join(a, b) ==
    IF Len(b) > 0 /\ b[1] = "/" THEN b
    ELSE IF Len(a) = 0 \/ a[Len(a)] = "/" THEN a \o b
    ELSE a \o <<"/">> \o b

(***************************************************************************)
(* Program constants.                                                      *)
(***************************************************************************)
MAX_FILE_SIZE == 700 * 1024

IMAGE_SAVE_DIR == <<".","/","a","r","x","i","v","_","i","m","a","g","e","s">>

DotPng == <<".","p","n","g">>
DotJpg == <<".","j","p","g">>
DotJpeg == <<".","j","p","e","g">>
DotGif == <<".","g","i","f">>
DotGz == <<".","g","z">>
DotTar == <<".","t","a","r">>
DotTarGz == <<".","t","a","r",".","g","z">>
DotZip == <<".","z","i","p">>

SUPPORTED_IMAGE_FORMATS == {DotPng, DotJpg, DotJpeg, DotGif}

(***************************************************************************)
(* datetime values: <<year, month, day, microsecond>>; the hour, minute    *)
(* and second of every datetime of the program are 0.                      *)
(***************************************************************************)
DtLess(a, b) ==
    \E i \in 1..4 : a[i] < b[i] /\ \A j \in 1..(i-1) : a[j] = b[j]

DtLeq(a, b) == a = b \/ DtLess(a, b)

\* A lower bound at the start of the month: not what the code does.
LOWER_BOUND_MonthStart == <<2023, 9, 1, 0>>

\* line 167: datetime(2023,9,19)
LOWER_BOUND == <<2023, 9, 19, 0>>

\* line 180: datetime(2024,1,1)
DEFAULT_CUTOFF == <<2024, 1, 1, 0>>

(***************************************************************************)
(* datetime.strptime(s, "src/arXiv_src_%y%m_%f").  The format compiles to  *)
(* the regex src/arXiv_src_(\d\d)(1[0-2]|0[1-9]|[1-9])_([0-9]{1,6}),       *)
(* matched ignoring case at the start of s; text left over after the match *)
(* is an error.  The result is <<TRUE, datetime>> or <<FALSE, <<>>>> when  *)
(* ValueError is raised.                                                   *)
(***************************************************************************)
FormatPrefix == <<"s","r","c","/","a","r","X","i","v","_","s","r","c","_">>

\* %f: one to six digits, right-padded with zeros to microseconds
Pow10(n) == IF n = 0 THEN 1 ELSE IF n = 1 THEN 10 ELSE IF n = 2 THEN 100
            ELSE IF n = 3 THEN 1000 ELSE IF n = 4 THEN 10000 ELSE 100000

RECURSIVE DigitsValue(_)
DigitsValue(ds) ==
    IF Len(ds) = 0 THEN 0
    ELSE 10 * DigitsValue(Take(ds, Len(ds) - 1)) + DigitVal(ds[Len(ds)])

Microsecond(f) == DigitsValue(f) * Pow10(6 - Len(f))

\* %y: 69..99 are 19xx, 00..68 are 20xx
Year(yy) == IF yy >= 69 THEN 1900 + yy ELSE 2000 + yy

NoDate == <<FALSE, << >> >>

strptime(s) ==
    LET n == Len(FormatPrefix)
        rest == Drop(s, n)
        under == IF Len(rest) >= 5 /\ rest[5] = "_" THEN 5
                 ELSE IF Len(rest) >= 4 /\ rest[4] = "_" THEN 4 ELSE 0
        mm == SubSeq(rest, 3, under - 1)
        f == Drop(rest, under)
    IN  IF \/ Len(s) < n
           \/ Lower(Take(s, n)) # Lower(FormatPrefix)
           \/ under = 0
        THEN NoDate
        ELSE IF \/ ~ (IsDigit(rest[1]) /\ IsDigit(rest[2]))
                \/ \E i \in 1..Len(mm) : ~ IsDigit(mm[i])
                \/ DigitsValue(mm) \notin 1..12
                \/ Len(f) \notin 1..6
                \/ \E i \in 1..Len(f) : ~ IsDigit(f[i])
        THEN NoDate
        ELSE <<TRUE, <<Year(DigitsValue(Take(rest, 2))), DigitsValue(mm), 1,
                       Microsecond(f)>> >>

\* the argument of strptime at line 163
ParseKey(s3_key) == strptime(Strip(s3_key, {".", "t", "a", "r"}))

\* A window test that forgets the lower bound: not what the code does.
InWindowNoLowerBound(file_datetime, cutoff_datetime) ==
    DtLeq(file_datetime, cutoff_datetime)

\* line 167: datetime(2023,9,19) <= file_datetime <= cutoff_datetime
InWindow(file_datetime, cutoff_datetime) ==
    DtLeq(LOWER_BOUND, file_datetime) /\ DtLeq(file_datetime, cutoff_datetime)

\* line 169: re.search(r'(\.tar\.gz|\.tar|\.zip)$', s3_key)
SuffixMatch(s3_key) ==
    EndsWith(s3_key, DotTarGz) \/ EndsWith(s3_key, DotTar) \/ EndsWith(s3_key, DotZip)

(***************************************************************************)
(* Inputs: the keys the bucket listing may return, the keys a direct call  *)
(* of download_and_extract_images may be given, the members an archive may *)
(* hold, and the values uuid.uuid4() may return.                           *)
(***************************************************************************)
K(yymm, seq, suffix) == FormatPrefix \o yymm \o <<"_">> \o seq \o suffix

K_2309 == K(<<"2","3","0","9">>, <<"0","0","1">>, DotTar)
K_2209 == K(<<"2","2","0","9">>, <<"0","0","1">>, DotTar)
K_2310 == K(<<"2","3","1","0">>, <<"0","0","1">>, DotTar)
K_2310_gz == K(<<"2","3","1","0">>, <<"0","0","1">>, DotTarGz)
K_2310_zip == K(<<"2","3","1","0">>, <<"0","0","1">>, DotZip)
K_2310_bare == K(<<"2","3","1","0">>, <<"0","0","1">>, << >>)
K_2401_0 == K(<<"2","4","0","1">>, <<"0">>, DotTar)
K_manifest == FormatPrefix \o <<"m","a","n","i","f","e","s","t",".","x","m","l">>
PaperZip == <<"p","a","p","e","r">> \o DotZip
PaperTarGz == <<"s","r","c","/","p","a","p","e","r">> \o DotTarGz

Keys == {K_2309, K_2209, K_2310, K_2310_gz, K_2310_zip, K_2310_bare,
         K_2401_0, K_manifest}

DirectKeys == {PaperZip, PaperTarGz, K_2310}

Cutoffs == {DEFAULT_CUTOFF, <<2023, 10, 1, 0>>}

N_png == <<"d","/","f",".","P","N","G">>
N_gz == <<"p",".","g","z">>
N_tex == <<"n",".","t","e","x">>

Member(name, size, isfile) == [name |-> name, size |-> size, isfile |-> isfile]

Members ==
    { Member(N_png, MAX_FILE_SIZE, TRUE), Member(N_png, MAX_FILE_SIZE + 1, TRUE),
      Member(N_gz, 800 * 1024, TRUE), Member(N_tex, 800 * 1024, TRUE),
      Member(N_gz, 0, FALSE) }

Uuids == { <<"0","a">>, <<"0","b">> }

\* outcomes of open(path, 'wb') followed by write(read()): the exception
\* comes before the file exists, or after open created it
WriteOutcomes == {"ok", "raise_before", "raise_after"}

Outcomes == {"ok", "raise"}

(***************************************************************************)
(* The walker's predicates and the file-name generator.                    *)
(***************************************************************************)
\* A generator that drops the identifier: not what the code does.
generate_filename_without_id(save_dir, original_name, unique_id) ==
    join(save_dir, original_name)

\* lines 110-113, with the value uuid.uuid4() returned
generate_unique_filename(save_dir, original_name, unique_id) ==
    LET base_name == splitext(original_name)[1]
        ext == splitext(original_name)[2]
    IN  join(save_dir, base_name \o <<"_">> \o unique_id \o ext)

\* line 121: a regular file with an image extension
IsImage(member) ==
    /\ member.isfile
    /\ \E ext \in SUPPORTED_IMAGE_FORMATS : EndsWith(Lower(member.name), ext)

\* lines 58 and 132: a regular file named *.gz
IsGz(member) == member.isfile /\ EndsWith(Lower(member.name), DotGz)

\* A size test that lets everything through: not what the code does.
NoSizeCap(file_size) == TRUE

\* line 124
WithinCap(file_size) == file_size <= MAX_FILE_SIZE

\* A dispatcher that takes any file for a tar: not what the code does.
SupportedAny(local_path) == TRUE

\* line 89
Supported(local_path) == EndsWith(local_path, DotTar) \/ EndsWith(local_path, DotTarGz)

\* line 73
LocalPath(key) == join(IMAGE_SAVE_DIR, basename(key))

\* the values process_arxiv_files and download_and_extract_images compute
\* from a key: lines 163, 169, 73
KeyTable ==
    [key \in Keys \cup DirectKeys \cup {<< >>} |->
        [date |-> ParseKey(key), suffix |-> SuffixMatch(key),
         local |-> LocalPath(key)]]

\* the values the walker computes from a member: lines 58-60, 121-125, 132-134
MemberTable ==
    [m \in Members |->
        [image |-> IsImage(m), gz |-> IsGz(m), within |-> WithinCap(m.size),
         base |-> basename(m.name),
         temp |-> join(IMAGE_SAVE_DIR, basename(m.name)),
         out |-> [id \in Uuids |->
                    generate_unique_filename(IMAGE_SAVE_DIR, basename(m.name), id)]]]

(***************************************************************************)
(* The state.                                                              *)
(***************************************************************************)
VARIABLES
    entry,            \* "process": run started by process_arxiv_files;
                      \* "direct": download_and_extract_images called alone
    pc,               \* position of the caller
    cutoff_datetime,  \* the argument of process_arxiv_files
    saveDirExists,    \* IMAGE_SAVE_DIR exists
    pagesLeft,        \* pages the paginator has still to return
    itemsLeft,        \* items of the current page still to iterate
    s3_key,           \* the key of the current iteration / call
    listed,           \* keys the listing has returned so far
    forwarded,        \* keys passed to download_and_extract_images so far
    stack,            \* call stack below the caller, innermost frame last
    files,            \* paths present on disk
    temps,            \* temp files the walker made for the current archive
                      \* and has not removed
    images,           \* image files written in this run
    usedIds,          \* values uuid.uuid4() has returned in this run
    lastMember,       \* the archive member the last step handled, if any
    lastExc,          \* the exception the last step raised, if any
    printed           \* the lines the last step printed

vars == <<entry, pc, cutoff_datetime, saveDirExists, pagesLeft, itemsLeft, s3_key,
          listed, forwarded, stack, files, temps, images, usedIds, lastMember,
          lastExc, printed>>

Frame(fn, pos, left, path) == [fn |-> fn, pos |-> pos, left |-> left, path |-> path]

NoMember == [name |-> << >>, size |-> 0, isfile |-> FALSE, made |-> {},
             fresh |-> FALSE, clobbered |-> FALSE]

NoExc == [site |-> "none", by |-> "none", dropped |-> 0]

\* what a step did with a member: the files it made for it, whether the
\* identifier drawn was new in this run, whether the path written existed
MemberDone(member, made, fresh, clobbered) ==
    [name |-> member.name, size |-> member.size, isfile |-> member.isfile,
     made |-> made, fresh |-> fresh, clobbered |-> clobbered]

Line(msg, arg) == [msg |-> msg, arg |-> arg]

Top(stk) == stk[Len(stk)]

(***************************************************************************)
(* Exceptions.  Every statement of download_and_extract_images (lines      *)
(* 71-101) and of extract_images_from_gz (lines 39-45) is inside a         *)
(* try/except Exception; extract_from_tar and extract_images_from_archive  *)
(* have no handler.                                                        *)
(***************************************************************************)
\* The final os.remove of the archive outside the try: not what the code does.
InTryButCleanup(fn, pos) == fn = "gz" \/ (fn = "fetch" /\ pos # "cleanup")

\* No handler in download_and_extract_images: not what the code does.
InTryGzOnly(fn, pos) == fn = "gz"

\* A handler around each member of extract_images_from_archive too: not
\* what the code does.
InTryArchToo(fn, pos) == fn \in {"gz", "fetch", "arch"}

InTry(fn, pos) == fn \in {"gz", "fetch"}

\* index of the innermost frame that catches, 0 when none does
HandlerIndex(stk) ==
    IF \E i \in 1..Len(stk) : InTry(stk[i].fn, stk[i].pos)
    THEN CHOOSE i \in 1..Len(stk) :
            /\ InTry(stk[i].fn, stk[i].pos)
            /\ \A j \in (i+1)..Len(stk) : ~ InTry(stk[j].fn, stk[j].pos)
    ELSE 0

\* where a caller goes on after its call returns: line 64, line 139, line 96
ResumePos(fn) == IF fn = "fetch" THEN "cleanup" ELSE "remove"

\* the stack after its innermost function has returned normally; the call
\* of line 43 is the last statement of extract_images_from_gz, which
\* returns in turn
RECURSIVE Returned(_)
Returned(stk) ==
    LET callers == Take(stk, Len(stk) - 1)
    IN  IF callers = << >> THEN << >>
        ELSE IF Top(callers).fn = "gz" THEN Returned(callers)
        ELSE [callers EXCEPT ![Len(callers)].pos = ResumePos(Top(callers).fn)]

\* members of extract_images_from_archive loops that an unwinding abandons
RECURSIVE Abandoned(_, _)
Abandoned(stk, h) ==
    IF Len(stk) <= h \/ Len(stk) = 0 THEN 0
    ELSE (IF Top(stk).fn = "arch" THEN Top(stk).left ELSE 0)
         + Abandoned(Take(stk, Len(stk) - 1), h)

ReturnPc == IF entry = "process" THEN "list" ELSE "returned"

\* control passes to the stack stk
Resume(stk) ==
    /\ stack' = stk
    /\ pc' = IF stk = << >> THEN ReturnPc ELSE "call"

HandlerLine(frame) ==
    IF frame.fn = "gz" THEN Line("Error extracting", frame.path)
    ELSE IF frame.fn = "fetch" THEN Line("Error downloading and extracting", s3_key)
    ELSE Line("Error", frame.path)

\* an exception raised at `site` with the stack stk: the innermost handler
\* prints and its function returns; with no handler the run ends
Raise(site, stk) ==
    LET h == HandlerIndex(stk)
    IN  /\ lastExc' = [site |-> site,
                       by |-> IF h = 0 THEN "none" ELSE stk[h].fn,
                       dropped |-> Abandoned(stk, h)]
        /\ IF h = 0
           THEN /\ stack' = << >>
                /\ pc' = "aborted"
                /\ printed' = << >>
           ELSE /\ Resume(Returned(Take(stk, h)))
                /\ printed' = <<HandlerLine(stk[h])>>

\* the step ends without an exception
Normal(stk, lines) ==
    /\ Resume(stk)
    /\ lastExc' = NoExc
    /\ printed' = lines

ArchDepth(stk) == Cardinality({i \in 1..Len(stk) : stk[i].fn = "arch"})


(***************************************************************************)
(* process_arxiv_files.                                                    *)
(***************************************************************************)
\* lines 146-155: the output directory and the paginator
Start ==
    /\ pc = "start"
    /\ pc' = "list"
    /\ saveDirExists' = TRUE
    /\ lastMember' = NoMember
    /\ lastExc' = NoExc
    /\ printed' = << >>
    /\ UNCHANGED <<entry, cutoff_datetime, pagesLeft, itemsLeft, s3_key, listed,
                   forwarded, stack, files, temps, images, usedIds>>

\* lines 157-158, 172-173: the paginator fetches the next page, which may
\* raise (nothing catches it); a page without 'Contents' only prints
NextPage ==
    /\ pc = "list"
    /\ itemsLeft = 0
    /\ pagesLeft > 0
    /\ \E outcome \in Outcomes, n \in 0..MaxPerPage :
          IF outcome = "raise"
          THEN /\ n = 0
               /\ Raise("paginate", << >>)
               /\ UNCHANGED <<pagesLeft, itemsLeft>>
          ELSE /\ pagesLeft' = pagesLeft - 1
               /\ itemsLeft' = n
               /\ Normal(<< >>, IF n = 0
                                THEN <<Line("No files found for year", cutoff_datetime)>>
                                ELSE << >>)
    /\ lastMember' = NoMember
    /\ UNCHANGED <<entry, cutoff_datetime, saveDirExists, s3_key, listed, forwarded,
                   files, temps, images, usedIds>>

\* lines 159-171: one item of the page.  A key that does not parse raises
\* ValueError, which the bare except of line 164 turns into `continue`.
ListItem ==
    /\ pc = "list"
    /\ itemsLeft > 0
    /\ \E key \in Keys :
          /\ s3_key' = key
          /\ listed' = listed \cup {key}
          /\ IF ~ KeyTable[key].date[1]
             THEN /\ lastExc' = [site |-> "strptime", by |-> "list", dropped |-> 0]
                  /\ printed' = << >>
                  /\ UNCHANGED <<pc, stack, forwarded>>
             ELSE IF /\ InWindow(KeyTable[key].date[2], cutoff_datetime)
                     /\ KeyTable[key].suffix
             THEN /\ forwarded' = forwarded \cup {key}
                  /\ stack' = <<Frame("fetch", "download", 0, KeyTable[key].local)>>
                  /\ pc' = "call"
                  /\ lastExc' = NoExc
                  /\ printed' = <<Line("Processing file", key)>>
             ELSE /\ lastExc' = NoExc
                  /\ printed' = << >>
                  /\ UNCHANGED <<pc, stack, forwarded>>
    /\ itemsLeft' = itemsLeft - 1
    /\ lastMember' = NoMember
    /\ UNCHANGED <<entry, cutoff_datetime, saveDirExists, pagesLeft, files, temps,
                   images, usedIds>>

\* the iterator is exhausted: process_arxiv_files returns
Finish ==
    /\ pc = "list"
    /\ itemsLeft = 0
    /\ pagesLeft = 0
    /\ pc' = "done"
    /\ lastMember' = NoMember
    /\ lastExc' = NoExc
    /\ printed' = << >>
    /\ UNCHANGED <<entry, cutoff_datetime, saveDirExists, pagesLeft, itemsLeft, s3_key,
                   listed, forwarded, stack, files, temps, images, usedIds>>

(***************************************************************************)
(* download_and_extract_images.                                            *)
(***************************************************************************)
\* lines 73-86: the directory is made and the object downloaded
Download ==
    /\ stack # << >>
    /\ Top(stack).fn = "fetch"
    /\ Top(stack).pos = "download"
    /\ saveDirExists' = TRUE
    /\ temps' = {}
    /\ \E outcome \in Outcomes :
          IF outcome = "raise"
          THEN /\ Raise("download", stack)
               /\ UNCHANGED files
          ELSE /\ files' = files \cup {Top(stack).path}
               /\ Normal([stack EXCEPT ![Len(stack)].pos = "dispatch"],
                         <<Line("Downloaded", s3_key)>>)
    /\ lastMember' = NoMember
    /\ UNCHANGED <<entry, cutoff_datetime, pagesLeft, itemsLeft, s3_key, listed,
                   forwarded, images, usedIds>>

\* lines 89-93 and, for a supported name, lines 51-55 of extract_from_tar:
\* the tar is opened and its members read, which may raise
Dispatch ==
    /\ stack # << >>
    /\ Top(stack).fn = "fetch"
    /\ Top(stack).pos = "dispatch"
    /\ IF ~ Supported(Top(stack).path)
       THEN Normal(<< >>, <<Line("Unsupported file format", Top(stack).path)>>)
       ELSE \E outcome \in Outcomes, n \in 0..MaxMembers :
               IF outcome = "raise"
               THEN /\ n = 0
                    /\ Raise("tar_open", [stack EXCEPT ![Len(stack)].pos = "extract"])
               ELSE Normal(Append([stack EXCEPT ![Len(stack)].pos = "extract"],
                                  Frame("tar", "loop", n, << >>)), << >>)
    /\ lastMember' = NoMember
    /\ UNCHANGED <<entry, cutoff_datetime, saveDirExists, pagesLeft, itemsLeft, s3_key,
                   listed, forwarded, files, temps, images, usedIds>>

\* lines 96-98: the downloaded archive is removed
Cleanup ==
    /\ stack # << >>
    /\ Top(stack).fn = "fetch"
    /\ Top(stack).pos = "cleanup"
    /\ IF Top(stack).path \notin files
       THEN /\ Normal(<< >>, << >>)
            /\ UNCHANGED files
       ELSE \E outcome \in Outcomes :
               IF outcome = "raise"
               THEN /\ Raise("archive_remove", stack)
                    /\ UNCHANGED files
               ELSE /\ files' = files \ {Top(stack).path}
                    /\ Normal(<< >>, <<Line("Deleted archive", Top(stack).path)>>)
    /\ lastMember' = NoMember
    /\ UNCHANGED <<entry, cutoff_datetime, saveDirExists, pagesLeft, itemsLeft, s3_key,
                   listed, forwarded, temps, images, usedIds>>

(***************************************************************************)
(* extract_from_tar.                                                       *)
(***************************************************************************)
\* lines 56-63: the next member; a *.gz file is written to
\* save_dir/basename and extract_images_from_gz is called on it
TarMember ==
    /\ stack # << >>
    /\ Top(stack).fn = "tar"
    /\ Top(stack).pos = "loop"
    /\ Top(stack).left > 0
    /\ \E member \in Members :
          LET gz_file_path == MemberTable[member].temp
              next == [stack EXCEPT ![Len(stack)].left = @ - 1]
              stk == [next EXCEPT ![Len(stack)].path = gz_file_path]
          IN  IF ~ MemberTable[member].gz
              THEN /\ lastMember' = MemberDone(member, {}, FALSE, FALSE)
                   /\ Normal(next, << >>)
                   /\ UNCHANGED <<files, temps>>
              ELSE \E w \in WriteOutcomes :
                      LET made == IF w = "raise_before" THEN {} ELSE {gz_file_path}
                      IN  /\ lastMember' = MemberDone(member, made, FALSE, FALSE)
                          /\ files' = files \cup made
                          /\ temps' = temps \cup made
                          /\ IF w # "ok"
                             THEN Raise("tar_write", stk)
                             ELSE Normal(Append(stk, Frame("gz", "open", 0,
                                                           gz_file_path)), << >>)
    /\ UNCHANGED <<entry, cutoff_datetime, saveDirExists, pagesLeft, itemsLeft, s3_key,
                   listed, forwarded, images, usedIds>>

\* line 64: os.remove(gz_file_path)
TarRemove ==
    /\ stack # << >>
    /\ Top(stack).fn = "tar"
    /\ Top(stack).pos = "remove"
    /\ \E outcome \in Outcomes :
          IF outcome = "raise"
          THEN /\ Raise("tar_remove", stack)
               /\ UNCHANGED <<files, temps>>
          ELSE /\ files' = files \ {Top(stack).path}
               /\ temps' = temps \ {Top(stack).path}
               /\ Normal([stack EXCEPT ![Len(stack)].pos = "loop"], << >>)
    /\ lastMember' = NoMember
    /\ UNCHANGED <<entry, cutoff_datetime, saveDirExists, pagesLeft, itemsLeft, s3_key,
                   listed, forwarded, images, usedIds>>

\* the loop of line 56 is over: extract_from_tar returns to line 90
TarReturn ==
    /\ stack # << >>
    /\ Top(stack).fn = "tar"
    /\ Top(stack).pos = "loop"
    /\ Top(stack).left = 0
    /\ Normal(Returned(stack), << >>)
    /\ lastMember' = NoMember
    /\ UNCHANGED <<entry, cutoff_datetime, saveDirExists, pagesLeft, itemsLeft, s3_key,
                   listed, forwarded, files, temps, images, usedIds>>

(***************************************************************************)
(* extract_images_from_gz.                                                 *)
(***************************************************************************)
\* lines 41-43: the file is opened as a gzip-wrapped tar, which raises when
\* it is not one, and extract_images_from_archive is called on it
GzOpen ==
    /\ stack # << >>
    /\ Top(stack).fn = "gz"
    /\ Top(stack).pos = "open"
    /\ \E outcome \in Outcomes, n \in 0..MaxMembers :
          IF outcome = "raise"
          THEN /\ n = 0
               /\ Raise("gz_open", stack)
          ELSE Normal(Append([stack EXCEPT ![Len(stack)].pos = "walk"],
                             Frame("arch", "loop", n, << >>)), << >>)
    /\ lastMember' = NoMember
    /\ UNCHANGED <<entry, cutoff_datetime, saveDirExists, pagesLeft, itemsLeft, s3_key,
                   listed, forwarded, files, temps, images, usedIds>>

(***************************************************************************)
(* extract_images_from_archive.                                            *)
(***************************************************************************)
\* lines 119-138: the next member.  An image within the cap is written
\* under a generated name; a *.gz file is written under a generated name
\* and opened as a nested tar, on which the function recurses.
ArchMember ==
    /\ stack # << >>
    /\ Top(stack).fn = "arch"
    /\ Top(stack).pos = "loop"
    /\ Top(stack).left > 0
    /\ \E member \in Members :
          LET next == [stack EXCEPT ![Len(stack)].left = @ - 1]
          IN  IF MemberTable[member].image /\ MemberTable[member].within
              THEN \E unique_id \in Uuids, w \in WriteOutcomes :
                      LET save_path == MemberTable[member].out[unique_id]
                          made == IF w = "raise_before" THEN {} ELSE {save_path}
                      IN  /\ lastMember' = MemberDone(member, made,
                                                      unique_id \notin usedIds,
                                                      made \cap files # {})
                          /\ usedIds' = usedIds \cup {unique_id}
                          /\ files' = files \cup made
                          /\ images' = images \cup
                                {[path |-> p, name |-> MemberTable[member].base,
                                  id |-> unique_id] : p \in made}
                          /\ UNCHANGED temps
                          /\ IF w # "ok"
                             THEN Raise("image_write", next)
                             ELSE Normal(next, <<Line("Extracted image", save_path)>>)
              ELSE IF ~ MemberTable[member].image /\ MemberTable[member].gz
              THEN \E unique_id \in Uuids, w \in WriteOutcomes :
                      LET gz_file_path == MemberTable[member].out[unique_id]
                          made == IF w = "raise_before" THEN {} ELSE {gz_file_path}
                          stk == [next EXCEPT ![Len(stack)].path = gz_file_path]
                      IN  /\ lastMember' = MemberDone(member, made,
                                                      unique_id \notin usedIds,
                                                      made \cap files # {})
                          /\ usedIds' = usedIds \cup {unique_id}
                          /\ files' = files \cup made
                          /\ temps' = temps \cup made
                          /\ UNCHANGED images
                          /\ IF w # "ok"
                             THEN Raise("nested_write", stk)
                             ELSE \E opened \in Outcomes, n \in 0..MaxMembers :
                                     IF opened = "raise"
                                     THEN /\ n = 0
                                          /\ Raise("nested_open", stk)
                                     ELSE /\ ArchDepth(stack) < MaxDepth
                                          /\ Normal(Append(stk, Frame("arch", "loop",
                                                                      n, << >>)),
                                                    << >>)
              ELSE /\ lastMember' = MemberDone(member, {}, FALSE, FALSE)
                   /\ Normal(next, << >>)
                   /\ UNCHANGED <<files, temps, images, usedIds>>
    /\ UNCHANGED <<entry, cutoff_datetime, saveDirExists, pagesLeft, itemsLeft, s3_key,
                   listed, forwarded>>

\* line 139: os.remove(gz_file_path)
ArchRemove ==
    /\ stack # << >>
    /\ Top(stack).fn = "arch"
    /\ Top(stack).pos = "remove"
    /\ \E outcome \in Outcomes :
          IF outcome = "raise"
          THEN /\ Raise("nested_remove", stack)
               /\ UNCHANGED <<files, temps>>
          ELSE /\ files' = files \ {Top(stack).path}
               /\ temps' = temps \ {Top(stack).path}
               /\ Normal([stack EXCEPT ![Len(stack)].pos = "loop"], << >>)
    /\ lastMember' = NoMember
    /\ UNCHANGED <<entry, cutoff_datetime, saveDirExists, pagesLeft, itemsLeft, s3_key,
                   listed, forwarded, images, usedIds>>

\* the loop of line 119 is over: the function returns to line 139 of its
\* caller, or through extract_images_from_gz to line 64
ArchReturn ==
    /\ stack # << >>
    /\ Top(stack).fn = "arch"
    /\ Top(stack).pos = "loop"
    /\ Top(stack).left = 0
    /\ Normal(Returned(stack), << >>)
    /\ lastMember' = NoMember
    /\ UNCHANGED <<entry, cutoff_datetime, saveDirExists, pagesLeft, itemsLeft, s3_key,
                   listed, forwarded, files, temps, images, usedIds>>

(***************************************************************************)
(* Specifications.  Spec is a run of the script (lines 176-182 call        *)
(* process_arxiv_files; the cutoff is its argument).  SpecDirect is one    *)
(* call of download_and_extract_images by itself.                          *)
(***************************************************************************)
InitCommon ==
    /\ saveDirExists = FALSE
    /\ listed = {}
    /\ forwarded = {}
    /\ files = {}
    /\ temps = {}
    /\ images = {}
    /\ usedIds = {}
    /\ lastMember = NoMember
    /\ lastExc = NoExc
    /\ printed = << >>

Init ==
    /\ entry = "process"
    /\ pc = "start"
    /\ cutoff_datetime \in Cutoffs
    /\ pagesLeft \in 0..MaxPages
    /\ itemsLeft = 0
    /\ s3_key = << >>
    /\ stack = << >>
    /\ InitCommon

InitDirect ==
    /\ entry = "direct"
    /\ pc = "call"
    /\ cutoff_datetime = DEFAULT_CUTOFF
    /\ pagesLeft = 0
    /\ itemsLeft = 0
    /\ s3_key \in DirectKeys
    /\ stack = <<Frame("fetch", "download", 0, KeyTable[s3_key].local)>>
    /\ InitCommon

Fetch ==
    \/ Download \/ Dispatch \/ Cleanup
    \/ TarMember \/ TarRemove \/ TarReturn
    \/ GzOpen
    \/ ArchMember \/ ArchRemove \/ ArchReturn

Next == Start \/ NextPage \/ ListItem \/ Finish \/ Fetch

NextDirect == Fetch

Spec == Init /\ [][Next]_vars

SpecDirect == InitDirect /\ [][NextDirect]_vars


(***************************************************************************)
(* Properties.                                                             *)
(***************************************************************************)
\* the datetime lies strictly outside [2023-09-19, cutoff]
OutsideWindow(dt, cutoff) == DtLess(dt, <<2023, 9, 19, 0>>) \/ DtLess(cutoff, dt)

RemoveSites == {"tar_remove", "nested_remove", "archive_remove"}

\* the places of extract_images_from_archive that can raise
ArchSites == {"image_write", "nested_write", "nested_open", "nested_remove"}

\* the places of the download and of the extraction that can raise
FetchSites == {"download", "tar_open", "tar_write", "tar_remove", "gz_open",
               "archive_remove"} \cup ArchSites

InFetch(pos) == stack # << >> /\ Top(stack).fn = "fetch" /\ Top(stack).pos = pos

\* C1, as the spec states it: with the default window the listed key
\* src/arXiv_src_2309_001.tar is forwarded to download_and_extract_images
\* and src/arXiv_src_2209_001.tar is never forwarded.
C1_AcceptsSeptember2023 ==
    cutoff_datetime = DEFAULT_CUTOFF =>
        /\ K_2309 \in listed => K_2309 \in forwarded
        /\ K_2209 \notin forwarded

\* C1, amended: with the default window neither src/arXiv_src_2309_001.tar
\* (it parses to 2023-09-01, before the lower bound 2023-09-19) nor
\* src/arXiv_src_2209_001.tar is ever forwarded; the listed key
\* src/arXiv_src_2310_001.tar is forwarded.
C1_RejectsSeptember2023 ==
    cutoff_datetime = DEFAULT_CUTOFF =>
        /\ K_2309 \notin forwarded
        /\ K_2209 \notin forwarded
        /\ K_2310 \in listed => K_2310 \in forwarded

C1_Witness ==
    /\ cutoff_datetime = DEFAULT_CUTOFF
    /\ pc = "done"
    /\ listed = {K_2309, K_2209}

\* C2: a listed key that does not parse, or parses to a datetime strictly
\* outside [2023-09-19, cutoff], is never passed to
\* download_and_extract_images; the ValueError of a key that does not parse
\* is caught in the loop, nothing else is raised for the key, and the loop
\* goes on.
Rejected(key) ==
    \/ ~ KeyTable[key].date[1]
    \/ OutsideWindow(KeyTable[key].date[2], cutoff_datetime)

C3_TempFilesReleased == InFetch("cleanup") => temps = {}

\* C4, as the spec states it: an exception of the download or of the
\* extraction of a key is caught inside download_and_extract_images and the
\* loop goes on, and at the end of the run every listed key inside the
\* window has been passed to download_and_extract_images.
ExceptionsCaught ==
    lastExc.site \in FetchSites =>
        /\ lastExc.by \in {"gz", "fetch"}
        /\ pc # "aborted"
        /\ lastExc.by = "fetch" => stack = << >> /\ pc = "list"

C4_EveryKeyInWindowAttempted ==
    /\ ExceptionsCaught
    /\ pc = "done" =>
          \A key \in listed :
              (KeyTable[key].date[1] /\ ~ OutsideWindow(KeyTable[key].date[2], cutoff_datetime))
                  => key \in forwarded

\* C4, amended: an exception of the download or of the extraction of a key
\* is caught inside download_and_extract_images and the loop goes on, and
\* at the end of the run every listed key inside the window that also
\* matches the suffix filter of line 169 has been passed to
\* download_and_extract_images.
C4_EveryAcceptedKeyAttempted ==
    /\ ExceptionsCaught
    /\ pc = "done" =>
          \A key \in listed :
              (/\ KeyTable[key].date[1]
               /\ ~ OutsideWindow(KeyTable[key].date[2], cutoff_datetime)
               /\ KeyTable[key].suffix) => key \in forwarded

\* both keys were attempted although the archive of each was left behind by
\* a failed extraction
C4_Witness ==
    /\ pc = "done"
    /\ forwarded = {K_2310, K_2401_0}
    /\ {KeyTable[K_2310].local, KeyTable[K_2401_0].local} \subseteq files

\* C5, as the spec states it: a failing os.remove is not caught; it leaves
\* download_and_extract_images and ends the run.
C5_RemoveFailureEndsRun ==
    lastExc.site \in RemoveSites => (lastExc.by = "none" /\ pc = "aborted")

\* C5, amended: a failing os.remove is caught: the one of line 139 by the
\* handler of extract_images_from_gz, those of lines 64 and 97 by the
\* handler of download_and_extract_images, which returns to the loop of
\* process_arxiv_files; the run is not ended.
C5_RemoveFailureCaught ==
    lastExc.site \in RemoveSites =>
        /\ pc # "aborted"
        /\ lastExc.site = "nested_remove" => lastExc.by = "gz" /\ pc = "call"
        /\ lastExc.site \in {"tar_remove", "archive_remove"} =>
              lastExc.by = "fetch" /\ pc = "list" /\ stack = << >>

C5_Witness ==
    /\ lastExc.site = "archive_remove"
    /\ pc = "list"
    /\ itemsLeft > 0

\* C6, as the spec states it: no file is made in the output directory for a
\* member whose size exceeds 700 KiB, whatever its extension.
C6_NoFileForLargeMember ==
    lastMember.size > 700 * 1024 => lastMember.made = {}

\* C6, amended: no file is made in the output directory for a member whose
\* size exceeds 700 KiB unless it is a regular file named *.gz; the cap is
\* applied to image members only, and a *.gz member is written to a temp
\* file whatever its size.
C6_NoFileForLargeNonGzMember ==
    (lastMember.size > 700 * 1024 /\ ~ IsGz(lastMember)) => lastMember.made = {}

C6_Witness ==
    /\ lastMember.name = N_png
    /\ lastMember.size > 700 * 1024
    /\ stack # << >>
    /\ Top(stack).fn = "arch"

\* C7: two image members written in one run with different identifiers have
\* different paths, also when their base names are equal; an image written
\* under an identifier not drawn before overwrites no file of the run.
C7_NoCollision ==
    /\ \A a, b \in images : a.id # b.id => a.path # b.path
    /\ (lastMember.fresh /\ IsImage(lastMember)) => ~ lastMember.clobbered

C7_Witness ==
    \E a, b \in images : a.name = b.name /\ a.id # b.id

C9_OnlyTarForwarded ==
    /\ \A key \in forwarded : EndsWith(key, DotTar)
    /\ \A key \in listed :
          (EndsWith(key, DotTarGz) \/ EndsWith(key, DotZip)) =>
              (~ KeyTable[key].date[1] /\ key \notin forwarded)
    /\ \A i \in 1..Len(printed) : printed[i].msg # "Unsupported file format"

C9_Witness ==
    /\ pc = "done"
    /\ K_2310_gz \in listed
    /\ K_2310 \in forwarded

\* C10: an exception raised while extract_images_from_archive walks a paper
\* archive is absorbed by extract_images_from_gz only: the step that raises
\* leaves the whole walk of the paper archive (its remaining members are
\* never visited, no image is written but what the failing member itself
\* left), and extract_from_tar goes on at line 64, about to remove the
\* outer temp file, with the members of the top-level tar it had left.
C10_FailureSkipsRestOfPaper ==
    [][lastExc'.site \in ArchSites =>
          /\ lastExc'.by = "gz"
          /\ pc' = "call"
          /\ Len(stack) >= 2
          /\ stack' = <<stack[1], [stack[2] EXCEPT !.pos = "remove"]>>
          /\ stack'[2].fn = "tar"
          /\ stack'[2].path \in files'
          /\ \A r \in images' \ images : r.path \in lastMember'.made]_vars

\* a nested *.gz member could not be opened, members of the paper archive
\* were left, and the top-level tar has a member left
C10_Witness ==
    /\ lastExc.site = "nested_open"
    /\ lastExc.dropped > 0
    /\ Len(stack) = 2
    /\ Top(stack).pos = "remove"
    /\ Top(stack).left > 0

=============================================================================
